---- MODULE Spec2Model ----
\* Conversation memory and retrieval-augmented answering of ResumeGPT:
\* backend/services/conversation_service.py (ConversationService), the LLM
\* wrapper of backend/services/deepseek_service.py, and the memory classes and
\* ConversationalRetrievalChain the service configures, and the HTTP handlers
\* of backend/api/main.py that work on the one process-wide service.
EXTENDS Integers, Sequences, FiniteSets, TLC

\* ------------------------------------------------------------------ bounds
\* asks issued on one memory object before the model stops asking
MaxTurns == 6
\* collaborator calls (LLM, retriever) that fail in one behaviour
MaxFailures == 1
\* /ask requests served on one memory object before the model stops asking
MaxApiTurns == 2

\* ------------------------------------------------------- program constants
\* ConversationBufferWindowMemory(k=5)
WindowK == 5
\* search_kwargs={"k": 4}
RetrieverK == 4
\* ConversationSummaryBufferMemory(max_token_limit=1000)
max_token_limit == 1000

\* ------------------------------------------------------------------ inputs
\* question texts: a whitespace-only string (empty once trimmed), a real question
Questions == {"   ", "Q1"}
\* the memory types the service knows, and the names handed to switch_memory_type
KnownTypes == {"buffer", "window", "summary"}
MemoryTypes == KnownTypes \cup {"nonexistent"}
\* the text DeepSeekLLM._call returns when the API call throws
ErrText == "Error calling DeepSeek API"
\* a completion of the answer prompt, of the question generator, of the summarizer
AnswerText == "A1"
StandaloneText == "SQ"
SummaryText == "SUM"
\* the chunk lists a vector store may hold (fewer and more than k chunks)
Stores == {<<"D1", "D2">>, <<"D1", "D2", "D3", "D4", "D5">>}
\* the clients (browser sessions of the frontend) that call the HTTP API
Clients == {"c1", "c2"}
\* names of uploaded files: a supported and an unsupported extension
Filenames == {"resume.pdf", "resume.exe"}

VARIABLES
    svc,                    \* the service object exists (conversation_service is not None)
    llm,                    \* self.llm: "deepseek" or the "openai" fallback
    vector_store,           \* self.vector_store: the indexed chunks
    memory_type,            \* self.memory_type
    memory_kind,            \* class of self.memory: "buffer", "window", "summary"
    messages,               \* self.memory.chat_memory.messages
    moving_summary_buffer,  \* self.memory.moving_summary_buffer (summary memory)
    chain_memory_kind,      \* class of the memory self.conversation_chain was built with
    last,                   \* outcome of the last call, as its caller observes it
    asked_ok,               \* asks that returned to their caller since the last reset
    log,                    \* every (question, answer) saved since the last reset
    failures,               \* collaborator failures so far
    http,                   \* the last HTTP response: its client, endpoint, status code
    uploaded,               \* the clients whose /upload has succeeded
    pending,                \* /ask requests received whose handler has not started
    running,                \* /ask handlers started and not yet returned
    session_chat_history,   \* st.session_state.chat_history of the frontend
    resume_loaded           \* st.session_state.resume_loaded of the frontend

\* the state of the service object and of its collaborators
svcvars == <<svc, llm, vector_store, memory_type, memory_kind, messages,
             moving_summary_buffer, chain_memory_kind, last, asked_ok, log, failures>>

\* the state seen at the HTTP API only
apivars == <<http, uploaded>>

\* the requests the event loop of the server holds
loopvars == <<pending, running>>

\* the session state of the Streamlit frontend
uivars == <<session_chat_history, resume_loaded>>

vars == <<svc, llm, vector_store, memory_type, memory_kind, messages,
          moving_summary_buffer, chain_memory_kind, last, asked_ok, log, failures,
          http, uploaded, pending, running, session_chat_history, resume_loaded>>

\* ----------------------------------------------------------------- helpers
Min(a, b) == IF a < b THEN a ELSE b
Max(a, b) == IF a > b THEN a ELSE b

\* s[-n:] of Python
LastN(s, n) == SubSeq(s, Max(1, Len(s) - n + 1), Len(s))

\* s[:n] of Python
FirstN(s, n) == SubSeq(s, 1, Min(n, Len(s)))

RECURSIVE SumSeq(_)
SumSeq(s) == IF s = <<>> THEN 0 ELSE Head(s) + SumSeq(Tail(s))

HumanMessage(c) == [type |-> "human", content |-> c]
AIMessage(c) == [type |-> "ai", content |-> c]
SystemMessage(c) == [type |-> "system", content |-> c]

\* len(msg.content): the character count of each text of the model
CharLen(c) ==
    CASE c = "" -> 0
      [] c = "   " -> 3
      [] c = "Q1" -> 1200
      [] c = AnswerText -> 1600
      [] c = ErrText -> 40
      [] c = SummaryText -> 200
      [] OTHER -> 8

\* llm.get_num_tokens of one message rendered "Human: ..." / "AI: ..."
NumTokens(m) ==
    CASE m.content = "" -> 2
      [] m.content = "   " -> 3
      [] m.content = "Q1" -> 300
      [] m.content = AnswerText -> 400
      [] m.content = ErrText -> 12
      [] OTHER -> 50

\* llm.get_num_tokens_from_messages(buffer)
get_num_tokens_from_messages(buffer) ==
    SumSeq([i \in 1..Len(buffer) |-> NumTokens(buffer[i])])

\* get_memory_summary of a service that holds no message
NoSummary ==
    [total_messages |-> 0, memory_type |-> "", conversation_turns |-> 0,
     last_messages |-> <<>>, estimated_tokens |-> 0]

\* the slots of the prompt template before they are filled
NoPrompt ==
    [chat_history |-> <<>>, context |-> <<>>, question |-> "", template |-> <<>>]

\* what the caller of an operation observes: the exception or the value
\* returned, and (for ask_question) what the chain did on the way
NoResult ==
    [op |-> "none", status |-> "ok", error |-> "", arg |-> "",
     new_question |-> "", prompt |-> NoPrompt, answer |-> "",
     source_chunks |-> <<>>, chat_history |-> <<>>, calls |-> <<>>,
     summary |-> NoSummary, gen_failed |-> FALSE, turns_before |-> 0,
     failed_calls |-> <<>>]

\* turns_before is len(messages) // 2 when the operation was called
Returned(op, arg) ==
    [NoResult EXCEPT !.op = op, !.arg = arg,
                     !.turns_before = Len(messages) \div 2]
Raised(op, arg, error) ==
    [NoResult EXCEPT !.op = op, !.arg = arg, !.status = "error",
                     !.error = error, !.turns_before = Len(messages) \div 2]

\* an HTTP response as its client receives it
\* (arg is the file name of an /upload and the memory_type of an /ask;
\* conversation_length is the field of that name in the body of a 200 /ask)
NoResponse ==
    [client |-> "", endpoint |-> "", code |-> 0, arg |-> "",
     conversation_length |-> 0]
Response(client, endpoint, code) ==
    [NoResponse EXCEPT !.client = client, !.endpoint = endpoint, !.code = code]

Init ==
    /\ svc = FALSE
    /\ llm = "deepseek"
    /\ vector_store = <<>>
    /\ memory_type = "buffer"
    /\ memory_kind = "buffer"
    /\ messages = <<>>
    /\ moving_summary_buffer = ""
    /\ chain_memory_kind = "buffer"
    /\ last = NoResult
    /\ asked_ok = 0
    /\ log = <<>>
    /\ failures = 0
    /\ http = NoResponse
    /\ uploaded = {}
    /\ pending = {}
    /\ running = {}
    /\ session_chat_history = <<>>
    /\ resume_loaded = FALSE

\* ------------------------------------------------- ConversationService
\* mutant: the new memory object is handed the messages of the old one
create_memory_keeps_history(mt) ==
    IF mt \in KnownTypes
    THEN [raised |-> FALSE, kind |-> mt, messages |-> messages,
          moving_summary_buffer |-> moving_summary_buffer]
    ELSE [raised |-> TRUE, kind |-> "", messages |-> <<>>,
          moving_summary_buffer |-> ""]

\* _create_memory: the memory object for a type name, or ValueError
_create_memory(mt) ==
    IF mt \in KnownTypes
    THEN [raised |-> FALSE, kind |-> mt, messages |-> <<>>,
          moving_summary_buffer |-> ""]
    ELSE [raised |-> TRUE, kind |-> "", messages |-> <<>>,
          moving_summary_buffer |-> ""]

\* __init__(vector_store, memory_type): the LLM is DeepSeek when its client can
\* be built and the OpenAI fallback otherwise; an unknown memory type raises
\* out of the constructor and no object comes to exist
__init__(store, mt, l) ==
    LET m == _create_memory(mt) IN
    IF m.raised
    THEN /\ last' = Raised("__init__", mt, "ValueError")
         /\ UNCHANGED <<svc, llm, vector_store, memory_type, memory_kind,
                        messages, moving_summary_buffer, chain_memory_kind,
                        asked_ok, log, failures>>
    ELSE /\ svc' = TRUE
         /\ llm' = l
         /\ vector_store' = store
         /\ memory_type' = mt
         /\ memory_kind' = m.kind
         /\ messages' = m.messages
         /\ moving_summary_buffer' = m.moving_summary_buffer
         /\ chain_memory_kind' = m.kind
         /\ asked_ok' = 0
         /\ log' = <<>>
         /\ last' = Returned("__init__", mt)
         /\ UNCHANGED failures

\* mutant: clear() of the summary memory forgets to reset the running summary
clear_keeps_summary(kind) ==
    [messages |-> <<>>, moving_summary_buffer |-> moving_summary_buffer]

\* mutant: clear() drops the last exchange only
clear_pops_last_turn(kind) ==
    [messages |-> SubSeq(messages, 1, Len(messages) - 2),
     moving_summary_buffer |-> IF kind = "summary" THEN "" ELSE moving_summary_buffer]

\* memory.clear(): chat_memory.clear(), and for the summary memory also
\* moving_summary_buffer = ""
clear(kind) ==
    [messages |-> <<>>,
     moving_summary_buffer |-> IF kind = "summary" THEN "" ELSE moving_summary_buffer]

\* mutant: clear_memory has the LLM called before it empties the memory
clear_memory_calls_llm ==
    /\ svc
    /\ messages' = clear(memory_kind).messages
    /\ moving_summary_buffer' = clear(memory_kind).moving_summary_buffer
    /\ asked_ok' = 0
    /\ log' = <<>>
    /\ last' = [Returned("clear_memory", "") EXCEPT !.calls = <<"llm">>]
    /\ UNCHANGED <<svc, llm, vector_store, memory_type, memory_kind,
                   chain_memory_kind, failures>>

\* clear_memory: self.memory.clear()
clear_memory ==
    /\ svc
    /\ messages' = clear(memory_kind).messages
    /\ moving_summary_buffer' = clear(memory_kind).moving_summary_buffer
    /\ asked_ok' = 0
    /\ log' = <<>>
    /\ last' = Returned("clear_memory", "")
    /\ UNCHANGED <<svc, llm, vector_store, memory_type, memory_kind,
                   chain_memory_kind, failures>>

\* mutant: conversation_turns counts messages, not exchanges
memory_summary_counts_messages ==
    [total_messages |-> Len(messages),
     memory_type |-> memory_type,
     conversation_turns |-> Len(messages),
     last_messages |-> [i \in 1..Len(LastN(messages, 4)) |->
                           LastN(messages, 4)[i].content],
     estimated_tokens |->
         SumSeq([i \in 1..Len(messages) |-> CharLen(messages[i].content)]) \div 4]

\* mutant: the estimate is taken from the last four messages only
memory_summary_estimates_last_messages ==
    [total_messages |-> Len(messages),
     memory_type |-> memory_type,
     conversation_turns |-> Len(messages) \div 2,
     last_messages |-> [i \in 1..Len(LastN(messages, 4)) |->
                           LastN(messages, 4)[i].content],
     estimated_tokens |->
         SumSeq([i \in 1..Len(LastN(messages, 4)) |->
                    CharLen(LastN(messages, 4)[i].content)]) \div 4]

\* get_memory_summary: the dictionary it returns
memory_summary ==
    [total_messages |-> Len(messages),
     memory_type |-> memory_type,
     conversation_turns |-> Len(messages) \div 2,
     last_messages |-> [i \in 1..Len(LastN(messages, 4)) |->
                           LastN(messages, 4)[i].content],
     estimated_tokens |->
         SumSeq([i \in 1..Len(messages) |-> CharLen(messages[i].content)]) \div 4]

\* mutant: the last four messages are taken out of the memory to be returned
get_memory_summary_pops_last_messages ==
    /\ svc
    /\ last' = [Returned("get_memory_summary", "") EXCEPT !.summary = memory_summary]
    /\ messages' = SubSeq(messages, 1, Len(messages) - 4)
    /\ UNCHANGED <<svc, llm, vector_store, memory_type, memory_kind,
                   moving_summary_buffer, chain_memory_kind, asked_ok, log,
                   failures>>

get_memory_summary ==
    /\ svc
    /\ last' = [Returned("get_memory_summary", "") EXCEPT !.summary = memory_summary]
    /\ UNCHANGED <<svc, llm, vector_store, memory_type, memory_kind, messages,
                   moving_summary_buffer, chain_memory_kind, asked_ok, log,
                   failures>>

\* switch_memory_type: memory_type is assigned first, then the memory is
\* created (which may raise), then the chain is rebuilt around it
switch_memory_type(new_memory_type) ==
    LET m == _create_memory(new_memory_type) IN
    /\ svc
    /\ memory_type' = new_memory_type
    /\ IF m.raised
       THEN /\ last' = Raised("switch_memory_type", new_memory_type, "ValueError")
            /\ UNCHANGED <<memory_kind, messages, moving_summary_buffer,
                           chain_memory_kind, asked_ok, log>>
       ELSE /\ memory_kind' = m.kind
            /\ messages' = m.messages
            /\ moving_summary_buffer' = m.moving_summary_buffer
            /\ chain_memory_kind' = m.kind
            /\ asked_ok' = 0
            /\ log' = <<>>
            /\ last' = Returned("switch_memory_type", new_memory_type)
    /\ UNCHANGED <<svc, llm, vector_store, failures>>

\* ------------------------------------------------------------ the memory
\* a memory object: its class, its chat_memory.messages and (summary memory)
\* its moving_summary_buffer
Memory(kind, msgs, summary) ==
    [kind |-> kind, messages |-> msgs, moving_summary_buffer |-> summary]

\* the memory object the chain was built around
CurrentMemory == Memory(chain_memory_kind, messages, moving_summary_buffer)

\* mutant: the window keeps the last k messages instead of the last k exchanges
load_memory_variables_k_messages(m) ==
    CASE m.kind = "buffer" -> m.messages
      [] m.kind = "window" -> LastN(m.messages, WindowK)
      [] OTHER ->
           (IF m.moving_summary_buffer # ""
            THEN <<SystemMessage(m.moving_summary_buffer)>> ELSE <<>>) \o m.messages

\* load_memory_variables of the three memory classes (return_messages=True):
\* every message; the last k exchanges; the running summary as a system
\* message followed by every message still held
load_memory_variables(m) ==
    CASE m.kind = "buffer" -> m.messages
      [] m.kind = "window" -> LastN(m.messages, WindowK * 2)
      [] OTHER ->
           (IF m.moving_summary_buffer # ""
            THEN <<SystemMessage(m.moving_summary_buffer)>> ELSE <<>>) \o m.messages

\* DeepSeekLLM._call catches every exception of the API call and returns the
\* error text as the completion; the ChatOpenAI fallback lets it propagate.
\* nf is the number of failures before the call.
llm_call(text, nf) ==
    {[raised |-> FALSE, failed |-> FALSE, text |-> text, nf |-> nf]} \cup
    (IF nf < MaxFailures
     THEN {IF llm = "deepseek"
           THEN [raised |-> FALSE, failed |-> TRUE, text |-> ErrText, nf |-> nf + 1]
           ELSE [raised |-> TRUE, failed |-> TRUE, text |-> "", nf |-> nf + 1]}
     ELSE {})

\* the number of messages prune() pops from the front of the buffer: it pops
\* one message at a time while the token count exceeds max_token_limit
RECURSIVE PruneCount(_)
PruneCount(buffer) ==
    IF get_num_tokens_from_messages(buffer) > max_token_limit
    THEN 1 + PruneCount(Tail(buffer))
    ELSE 0

\* ConversationSummaryBufferMemory.prune: the popped messages are folded into
\* the summary by one LLM call (predict_new_summary); when that call raises,
\* the messages are already popped and the summary keeps its old value
prune(m, buffer, nf) ==
    LET n == PruneCount(buffer)
        rest == SubSeq(buffer, n + 1, Len(buffer))
    IN  IF n = 0
        THEN {[raised |-> FALSE, failed |-> FALSE, messages |-> buffer,
               moving_summary_buffer |-> m.moving_summary_buffer,
               nf |-> nf, calls |-> <<>>]}
        ELSE {[raised |-> c.raised, failed |-> c.failed, messages |-> rest,
               moving_summary_buffer |->
                   IF c.raised THEN m.moving_summary_buffer ELSE c.text,
               nf |-> c.nf, calls |-> <<"predict_new_summary">>]
              : c \in llm_call(SummaryText, nf)}

\* mutant: the window memory deletes the messages that left the window
save_context_window_trims(m, question, answer, nf) ==
    LET buffer == m.messages \o <<HumanMessage(question), AIMessage(answer)>> IN
    IF m.kind = "summary"
    THEN prune(m, buffer, nf)
    ELSE {[raised |-> FALSE, failed |-> FALSE,
           messages |-> IF m.kind = "window" THEN LastN(buffer, 2 * WindowK)
                        ELSE buffer,
           moving_summary_buffer |-> m.moving_summary_buffer,
           nf |-> nf, calls |-> <<>>]}

\* save_context: the question as asked and the answer are appended as a human
\* and an AI message; the summary memory then prunes
save_context(m, question, answer, nf) ==
    LET buffer == m.messages \o <<HumanMessage(question), AIMessage(answer)>> IN
    IF m.kind = "summary"
    THEN prune(m, buffer, nf)
    ELSE {[raised |-> FALSE, failed |-> FALSE, messages |-> buffer,
           moving_summary_buffer |-> m.moving_summary_buffer,
           nf |-> nf, calls |-> <<>>]}

\* ------------------------------------------------------------- the chain
\* _get_chat_history of ConversationalRetrievalChain: one line per message,
\* its role prefix and its content
RolePrefix(type) ==
    CASE type = "human" -> "Human: "
      [] type = "ai" -> "Assistant: "
      [] OTHER -> "system: "

\* mutant: the history is rendered newest message first
get_chat_history_newest_first(msgs) ==
    [i \in 1..Len(msgs) |->
        <<RolePrefix(msgs[Len(msgs) + 1 - i].type), msgs[Len(msgs) + 1 - i].content>>]

get_chat_history(msgs) ==
    [i \in 1..Len(msgs) |-> <<RolePrefix(msgs[i].type), msgs[i].content>>]

\* the retriever: similarity search over the store, the k best chunks in
\* ranking order (the ranking depends on the query); the search may raise
RECURSIVE Reverse(_)
Reverse(s) == IF s = <<>> THEN <<>> ELSE Append(Reverse(Tail(s)), Head(s))

\* mutant: the search returns one chunk more than it was asked for
similarity_search_one_more(query, k) ==
    FirstN(IF query = "Q1" THEN Reverse(vector_store) ELSE vector_store, k + 1)

similarity_search(query, k) ==
    FirstN(IF query = "Q1" THEN Reverse(vector_store) ELSE vector_store, k)

\* mutant: a failed search is swallowed and yields no chunk
get_relevant_documents_swallows(query, nf) ==
    {[raised |-> FALSE, failed |-> FALSE,
      docs |-> similarity_search(query, RetrieverK), nf |-> nf]}
    \cup (IF nf < MaxFailures
          THEN {[raised |-> FALSE, failed |-> TRUE, docs |-> <<>>, nf |-> nf + 1]}
          ELSE {})

\* the retriever called by the chain, search_kwargs k = 4; a failed search
\* raises out of the retriever
get_relevant_documents(query, nf) ==
    {[raised |-> FALSE, failed |-> FALSE,
      docs |-> similarity_search(query, RetrieverK), nf |-> nf]}
    \cup (IF nf < MaxFailures
          THEN {[raised |-> TRUE, failed |-> TRUE, docs |-> <<>>, nf |-> nf + 1]}
          ELSE {})

\* the text of the PromptTemplate, in order: the opening line, then each
\* heading with the slot that follows it ("" where no slot follows)
prompt_template ==
    <<[label |-> "You are a helpful assistant analyzing a resume.", slot |-> ""],
      [label |-> "Previous conversation:", slot |-> "chat_history"],
      [label |-> "Resume context:", slot |-> "context"],
      [label |-> "Current question:", slot |-> "question"],
      [label |-> "Instructions:", slot |-> ""],
      [label |-> "Answer:", slot |-> ""]>>

\* mutant: the template puts the resume context before the conversation
custom_prompt_context_first(chat_history, context, question) ==
    [chat_history |-> chat_history, context |-> context, question |-> question,
     template |-> <<prompt_template[1], prompt_template[3], prompt_template[2],
                    prompt_template[4], prompt_template[5], prompt_template[6]>>]

\* custom_prompt filled by the combine-documents chain
custom_prompt(chat_history, context, question) ==
    [chat_history |-> chat_history, context |-> context, question |-> question,
     template |-> prompt_template]

\* mutant: the question is condensed by the LLM even when there is no history
question_generator_always(chat_history_str, question, nf) ==
    {[raised |-> c.raised, failed |-> c.failed, text |-> c.text, nf |-> c.nf,
      calls |-> <<"question_generator">>]
     : c \in llm_call(StandaloneText, nf)}

\* the question_generator step of ConversationalRetrievalChain._call: with a
\* non-empty chat history the LLM rewrites the question into a standalone
\* one, with an empty history the question is used as it is
question_generator(chat_history_str, question, nf) ==
    IF chat_history_str # <<>>
    THEN {[raised |-> c.raised, failed |-> c.failed, text |-> c.text,
           nf |-> c.nf, calls |-> <<"question_generator">>]
          : c \in llm_call(StandaloneText, nf)}
    ELSE {[raised |-> FALSE, failed |-> FALSE, text |-> question, nf |-> nf,
           calls |-> <<>>]}

\* ConversationalRetrievalChain._call behind Chain.__call__: load the memory,
\* condense the question with the LLM when there is history, retrieve for the
\* condensed question, answer from the filled prompt. The set of runs of the
\* chain built around memory m.
chain_call(m, question) ==
    LET chat_history_str == get_chat_history(load_memory_variables(m))
        calls0 == <<"load_memory_variables">>
        base == [raised |-> FALSE, error |-> "", new_question |-> "",
                 prompt |-> NoPrompt, answer |-> "", docs |-> <<>>,
                 calls |-> calls0, nf |-> failures, gen_failed |-> FALSE,
                 failed_calls |-> <<>>]
    IN  UNION {
          LET calls1 == calls0 \o g.calls
              failed1 == IF g.failed THEN <<"question_generator">> ELSE <<>>
          IN
          IF g.raised
          THEN {[base EXCEPT !.raised = TRUE, !.error = "APIError", !.nf = g.nf,
                             !.calls = calls1, !.failed_calls = failed1,
                             !.gen_failed = TRUE]}
          ELSE UNION {
            IF r.raised
            THEN {[base EXCEPT !.raised = TRUE, !.error = "StoreError",
                               !.new_question = g.text,
                               !.gen_failed = g.failed,
                               !.failed_calls = failed1 \o <<"retriever">>,
                               !.calls = calls1 \o <<"retriever">>, !.nf = r.nf]}
            ELSE {[base EXCEPT
                     !.raised = a.raised,
                     !.error = IF a.raised THEN "APIError" ELSE "",
                     !.new_question = g.text,
                     !.prompt = custom_prompt(chat_history_str, r.docs, g.text),
                     !.answer = a.text,
                     !.docs = r.docs,
                     !.calls = calls1 \o <<"retriever", "llm">>,
                     !.gen_failed = g.failed \/ a.failed,
                     !.failed_calls =
                         failed1
                         \o (IF r.failed THEN <<"retriever">> ELSE <<>>)
                         \o (IF a.failed THEN <<"llm">> ELSE <<>>),
                     !.nf = a.nf]
                  : a \in llm_call(AnswerText, r.nf)}
            : r \in get_relevant_documents(g.text, g.nf)}
          : g \in question_generator(chat_history_str, question, failures)}

\* get_chat_history_formatted: messages paired two by two from the front
get_chat_history_formatted(msgs) ==
    [j \in 1..(Len(msgs) \div 2) |->
        [question |-> msgs[2 * j - 1].content, answer |-> msgs[2 * j].content]]

\* what ask_question does once the chain has made run, on a service whose
\* chain holds memory m, whose turns saved since the last reset are log0 and
\* whose count of completed asks is ok0: an exception of the run propagates;
\* else Chain.prep_outputs saves the context and the response is built from
\* the result and the formatted history
ask_result(m, log0, ok0, question, run) ==
         IF run.raised
         THEN /\ last' = [Raised("ask_question", question, run.error)
                            EXCEPT !.new_question = run.new_question,
                                   !.prompt = run.prompt,
                                   !.gen_failed = run.gen_failed,
                                   !.failed_calls = run.failed_calls,
                                   !.calls = run.calls]
              /\ failures' = run.nf
              /\ messages' = m.messages
              /\ moving_summary_buffer' = m.moving_summary_buffer
              /\ asked_ok' = ok0
              /\ log' = log0
         ELSE \E s \in save_context(m, question, run.answer, run.nf) :
              /\ messages' = s.messages
              /\ moving_summary_buffer' = s.moving_summary_buffer
              /\ log' = Append(log0, [question |-> question, answer |-> run.answer])
              /\ failures' = s.nf
              /\ asked_ok' = IF s.raised THEN ok0 ELSE ok0 + 1
              /\ last' =
                   [(IF s.raised THEN Raised("ask_question", question, "APIError")
                     ELSE Returned("ask_question", question))
                    EXCEPT !.new_question = run.new_question,
                           !.prompt = run.prompt,
                           !.answer = run.answer,
                           !.gen_failed = run.gen_failed \/ s.failed,
                           !.failed_calls =
                               run.failed_calls
                               \o (IF s.failed THEN <<"predict_new_summary">>
                                   ELSE <<>>),
                           !.source_chunks = IF s.raised THEN <<>> ELSE run.docs,
                           !.chat_history =
                               IF s.raised THEN <<>>
                               ELSE get_chat_history_formatted(s.messages),
                           !.calls = run.calls \o <<"save_context">> \o s.calls]

\* ask_question on memory m: one run of the chain and what follows it
ask(m, log0, ok0, question) ==
    \E run \in chain_call(m, question) : ask_result(m, log0, ok0, question, run)

ask_question(question) ==
    /\ svc
    /\ Len(log) < MaxTurns
    /\ ask(CurrentMemory, log, asked_ok, question)
    /\ UNCHANGED <<svc, llm, vector_store, memory_type, memory_kind,
                   chain_memory_kind>>

\* the service driven directly, as the tests drive it
Next ==
    \/ \E store \in Stores, mt \in KnownTypes, l \in {"deepseek", "openai"} :
           __init__(store, mt, l) /\ UNCHANGED <<apivars, loopvars, uivars>>
    \/ clear_memory /\ UNCHANGED <<apivars, loopvars, uivars>>
    \/ get_memory_summary /\ UNCHANGED <<apivars, loopvars, uivars>>
    \/ \E mt \in MemoryTypes :
          switch_memory_type(mt) /\ UNCHANGED <<apivars, loopvars, uivars>>
    \/ \E question \in Questions :
          ask_question(question) /\ UNCHANGED <<apivars, loopvars, uivars>>

Spec == Init /\ [][Next]_vars

\* ------------------------------------------------------------ the HTTP API
\* file.filename.lower().endswith(('.pdf', '.docx', '.txt'))
SupportedFile(filename) == filename \in {"resume.pdf"}

\* mutant: the handler drops the service in use before it looks at the file
upload_resume_drops_service_first(c, filename, store, l) ==
    IF ~SupportedFile(filename) \/ store = <<>>
    THEN /\ http' = [Response(c, "/upload", 500) EXCEPT !.arg = filename]
         /\ svc' = FALSE
         /\ messages' = <<>>
         /\ UNCHANGED <<llm, vector_store, memory_type, memory_kind,
                        moving_summary_buffer, chain_memory_kind, last,
                        asked_ok, log, failures, uploaded>>
    ELSE /\ __init__(store, "buffer", l)
         /\ http' = [Response(c, "/upload", 200) EXCEPT !.arg = filename]
         /\ uploaded' = uploaded \cup {c}

\* POST /upload by client c. The HTTPException(400) of the file type check is
\* raised inside the try block and caught by `except Exception`, which
\* answers 500; so does a resume that cannot be processed into a vector
\* store (store = <<>>). Otherwise the one global conversation_service is
\* replaced by a new service with buffer memory.
upload_resume(c, filename, store, l) ==
    IF ~SupportedFile(filename) \/ store = <<>>
    THEN /\ http' = [Response(c, "/upload", 500) EXCEPT !.arg = filename]
         /\ UNCHANGED <<svcvars, uploaded>>
    ELSE /\ __init__(store, "buffer", l)
         /\ http' = [Response(c, "/upload", 200) EXCEPT !.arg = filename]
         /\ uploaded' = uploaded \cup {c}

\* mutant: conversation_length counts messages instead of exchanges
ask_response_counts_messages(c, mt, response) ==
    IF response.status = "ok"
    THEN [Response(c, "/ask", 200)
            EXCEPT !.arg = mt,
                   !.conversation_length = 2 * Len(response.chat_history)]
    ELSE [Response(c, "/ask", 500) EXCEPT !.arg = mt]

\* the answer of /ask to what conversation_service.ask_question returned or
\* raised
ask_response(c, mt, response) ==
    IF response.status = "ok"
    THEN [Response(c, "/ask", 200)
            EXCEPT !.arg = mt,
                   !.conversation_length = Len(response.chat_history)]
    ELSE [Response(c, "/ask", 500) EXCEPT !.arg = mt]

\* POST /ask by client c: 400 without a service; the memory is switched when
\* the request names another type than the service holds (an unknown type
\* raises after memory_type was assigned); then the question is asked; any
\* exception is answered 500
api_ask_question(c, question, mt) ==
    /\ UNCHANGED uploaded
    /\ IF ~svc
       THEN /\ http' = [Response(c, "/ask", 400) EXCEPT !.arg = mt]
            /\ UNCHANGED svcvars
       ELSE IF memory_type = mt
       THEN /\ Len(log) < MaxApiTurns
            /\ ask(CurrentMemory, log, asked_ok, question)
            /\ UNCHANGED <<svc, llm, vector_store, memory_type, memory_kind,
                           chain_memory_kind>>
            /\ http' = ask_response(c, mt, last')
       ELSE IF _create_memory(mt).raised
       THEN /\ switch_memory_type(mt)
            /\ http' = [Response(c, "/ask", 500) EXCEPT !.arg = mt]
       ELSE LET m == _create_memory(mt) IN
            /\ memory_type' = mt
            /\ memory_kind' = m.kind
            /\ chain_memory_kind' = m.kind
            /\ ask(Memory(m.kind, m.messages, m.moving_summary_buffer),
                   <<>>, 0, question)
            /\ UNCHANGED <<svc, llm, vector_store>>
            /\ http' = ask_response(c, mt, last')

\* POST /clear-memory by client c: 400 without a service, a "cancelled"
\* answer without confirm, else clear_memory
clear_conversation_memory(c, confirm) ==
    /\ UNCHANGED uploaded
    /\ IF ~svc
       THEN /\ http' = Response(c, "/clear-memory", 400)
            /\ UNCHANGED svcvars
       ELSE IF ~confirm
       THEN /\ http' = Response(c, "/clear-memory", 200)
            /\ UNCHANGED svcvars
       ELSE /\ clear_memory
            /\ http' = Response(c, "/clear-memory", 200)

\* mutant: the check for a missing service sits inside the try block
api_get_memory_summary_check_in_try(c) ==
    /\ UNCHANGED uploaded
    /\ IF ~svc
       THEN /\ http' = Response(c, "/memory-summary", 500)
            /\ UNCHANGED svcvars
       ELSE /\ get_memory_summary
            /\ http' = Response(c, "/memory-summary", 200)

\* GET /memory-summary by client c
api_get_memory_summary(c) ==
    /\ UNCHANGED uploaded
    /\ IF ~svc
       THEN /\ http' = Response(c, "/memory-summary", 400)
            /\ UNCHANGED svcvars
       ELSE /\ get_memory_summary
            /\ http' = Response(c, "/memory-summary", 200)

\* the files sent to /upload: a file with no supported extension (never
\* processed), a resume that cannot be processed, and resumes that make the
\* stores of Stores
Uploads ==
    {[filename |-> "resume.exe", store |-> <<>>]}
    \cup {[filename |-> "resume.pdf", store |-> st] : st \in Stores \cup {<<>>}}

\* the question texts sent to /ask (the handler does not look at the text)
ApiQuestions == {"Q1"}

\* the requests the clients send to the one backend process
NextApi ==
    \/ \E c \in Clients, file \in Uploads, l \in {"deepseek", "openai"} :
          upload_resume(c, file.filename, file.store, l)
          /\ UNCHANGED <<loopvars, uivars>>
    \/ \E c \in Clients, question \in ApiQuestions, mt \in MemoryTypes :
          api_ask_question(c, question, mt) /\ UNCHANGED <<loopvars, uivars>>
    \/ \E c \in Clients, confirm \in BOOLEAN :
          clear_conversation_memory(c, confirm) /\ UNCHANGED <<loopvars, uivars>>
    \/ \E c \in Clients :
          api_get_memory_summary(c) /\ UNCHANGED <<loopvars, uivars>>

SpecApi == Init /\ [][NextApi]_vars

\* ---------------------------------------------------------- the event loop
\* The handlers are coroutines (`async def`) run by one event loop: a handler
\* that has started keeps the loop until it awaits or returns. The /ask
\* handler is followed here in two stretches, the chain call and what comes
\* after it, to see what other requests can do in between.

\* memory types named by the /ask requests in flight
LoopTypes == {"buffer", "summary"}

\* the /ask requests in flight: one per client at most
Request(c, question, mt) == [client |-> c, question |-> question, memory_type |-> mt]

\* mutant: the loop takes up another handler while an /ask handler is between
\* its chain call and its return, as if the handler awaited there
loop_idle_during_ask == TRUE

\* the loop can start a handler: no /ask handler has started and not returned
\* (the /ask handler holds no await, conversation_service.ask_question is a
\* plain blocking call)
loop_idle == running = {}

\* a request reaches the server while the loop may be busy
receive_ask(c, question, mt) ==
    /\ \A r \in pending : r.client # c
    /\ \A t \in running : t.request.client # c
    /\ pending' = pending \cup {Request(c, question, mt)}
    /\ UNCHANGED <<svcvars, apivars, running, uivars>>

\* /upload served by the loop
loop_upload_resume(c, store, l) ==
    /\ loop_idle
    /\ upload_resume(c, "resume.pdf", store, l)
    /\ UNCHANGED <<loopvars, uivars>>

\* the loop starts the handler of a pending /ask: the 400 check, the switch of
\* the memory type when it differs, and the chain call on the memory then held
start_ask(r) ==
    /\ r \in pending
    /\ loop_idle
    /\ pending' = pending \ {r}
    /\ UNCHANGED <<uploaded, uivars>>
    /\ IF ~svc
       THEN /\ http' = [Response(r.client, "/ask", 400) EXCEPT !.arg = r.memory_type]
            /\ UNCHANGED <<svcvars, running>>
       ELSE IF memory_type = r.memory_type
       THEN /\ Len(log) < MaxApiTurns
            /\ \E run \in chain_call(CurrentMemory, r.question) :
                  /\ running' = running \cup {[request |-> r, run |-> run]}
                  /\ failures' = run.nf
            /\ UNCHANGED <<svc, llm, vector_store, memory_type, memory_kind,
                           messages, moving_summary_buffer, chain_memory_kind,
                           last, asked_ok, log, http>>
       ELSE IF _create_memory(r.memory_type).raised
       THEN /\ switch_memory_type(r.memory_type)
            /\ http' = [Response(r.client, "/ask", 500) EXCEPT !.arg = r.memory_type]
            /\ UNCHANGED running
       ELSE LET m == _create_memory(r.memory_type) IN
            /\ memory_type' = r.memory_type
            /\ memory_kind' = m.kind
            /\ chain_memory_kind' = m.kind
            /\ messages' = m.messages
            /\ moving_summary_buffer' = m.moving_summary_buffer
            /\ asked_ok' = 0
            /\ log' = <<>>
            /\ \E run \in chain_call(Memory(m.kind, m.messages,
                                            m.moving_summary_buffer), r.question) :
                  /\ running' = running \cup {[request |-> r, run |-> run]}
                  /\ failures' = run.nf
            /\ UNCHANGED <<svc, llm, vector_store, last, http>>

\* the handler goes on after its chain call: the context is saved in the
\* memory the service holds now, and the response is sent
finish_ask(t) ==
    /\ t \in running
    /\ running' = running \ {t}
    /\ ask_result(CurrentMemory, log, asked_ok, t.request.question, t.run)
    /\ http' = ask_response(t.request.client, t.request.memory_type, last')
    /\ UNCHANGED <<svc, llm, vector_store, memory_type, memory_kind,
                   chain_memory_kind, uploaded, pending, uivars>>

NextLoop ==
    \/ \E c \in Clients, question \in Questions, mt \in LoopTypes :
          receive_ask(c, question, mt)
    \/ \E c \in Clients, store \in Stores, l \in {"deepseek", "openai"} :
          loop_upload_resume(c, store, l)
    \/ \E r \in pending : start_ask(r)
    \/ \E t \in running : finish_ask(t)

SpecLoop == Init /\ [][NextLoop]_vars

\* ------------------------------------------------------------ the frontend
\* One browser session of the Streamlit frontend, client "c1" of the backend.
\* Every interaction reruns the script; each HTTP request the script makes is
\* one step of the backend. st.session_state holds chat_history and
\* resume_loaded. BackendAPI returns response.json() whatever the status
\* code: the JSON of a 400 or 500 answer has the key "detail", never the key
\* "error" the script tests for.

\* most entries the chat of the model holds
MaxChat == 3

\* the sidebar selectbox "Memory Type"
SidebarTypes == {"buffer", "window", "summary"}

\* the answer of an entry appended before the backend was called
NoAnswer == "None"

\* the entry the chat input appends to chat_history at once
pending_entry(question) ==
    [question |-> question, answer |-> NoAnswer, sources |-> <<>>]

\* chat_history once the script has handled a question: the entry is
\* appended, then filled in from a response that has an 'answer' (a 200), or
\* popped again (a 400 or 500 has neither "error" nor 'answer')
chat_after_ask(history, question, response, result) ==
    LET appended == Append(history, pending_entry(question)) IN
    IF response.code = 200
    THEN [appended EXCEPT ![Len(appended)].answer = result.answer,
                          ![Len(appended)].sources = result.source_chunks]
    ELSE SubSeq(appended, 1, Len(appended) - 1)

\* load_resume, run by the sidebar while resume_loaded is False: the file
\* uploader only lets pdf, docx and txt files through; whatever the backend
\* answers, the result has no key "error", so resume_loaded is set and
\* chat_history emptied
load_resume(store, l) ==
    /\ ~resume_loaded
    /\ upload_resume("c1", "resume.pdf", store, l)
    /\ resume_loaded' = TRUE
    /\ session_chat_history' = <<>>
    /\ UNCHANGED loopvars

\* the sidebar's "Memory Status" of every script run once resume_loaded
ui_memory_status ==
    /\ resume_loaded
    /\ api_get_memory_summary("c1")
    /\ UNCHANGED <<loopvars, uivars>>

\* the "Clear Memory" button: the result of api.clear_memory() has no key
\* "error", so chat_history is emptied
ui_clear_memory ==
    /\ resume_loaded
    /\ clear_conversation_memory("c1", TRUE)
    /\ session_chat_history' = <<>>
    /\ UNCHANGED <<loopvars, resume_loaded>>

\* the chat input, shown once resume_loaded: the question is sent with the
\* memory type the sidebar selectbox shows
ui_ask(question, selected) ==
    /\ resume_loaded
    /\ Len(session_chat_history) < MaxChat
    /\ api_ask_question("c1", question, selected)
    /\ session_chat_history' =
          chat_after_ask(session_chat_history, question, http', last')
    /\ UNCHANGED <<loopvars, resume_loaded>>

NextUi ==
    \/ \E file \in {u \in Uploads : SupportedFile(u.filename)},
          l \in {"deepseek", "openai"} :
          load_resume(file.store, l)
    \/ ui_memory_status
    \/ ui_clear_memory
    \/ \E question \in ApiQuestions, selected \in SidebarTypes :
          ui_ask(question, selected)

SpecUi == Init /\ [][NextUi]_vars

\* ---------------------------------------------------------------- claims
\* a question that is empty once whitespace is trimmed
IsBlank(q) == q \in {"", "   "}

\* the two lines a recorded turn takes in a rendered history
RenderTurn(t) == <<<<"Human: ", t.question>>, <<"Assistant: ", t.answer>>>>

\* the rendering of a sequence of turns, oldest first
RECURSIVE RenderTurns(_)
RenderTurns(ts) ==
    IF ts = <<>> THEN <<>> ELSE RenderTurn(Head(ts)) \o RenderTurns(Tail(ts))

\* token count of all the turns saved since the last reset
LogTokens ==
    SumSeq([i \in 1..Len(log) |->
              NumTokens(HumanMessage(log[i].question))
              + NumTokens(AIMessage(log[i].answer))])

\* the last step was an ask_question whose chain sent the answer prompt
AnswerPromptSent == last.op = "ask_question" /\ \E i \in 1..Len(last.calls) : last.calls[i] = "llm"

\* C1 (as stated): with no clear or switch in between, conversation_turns
\* equals the number N of asks that completed successfully, for every
\* memory variant.
C1_Original ==
    svc => memory_summary.conversation_turns = asked_ok

\* C1 (amended): with no clear or switch in between, conversation_turns
\* equals the number N of asks that completed successfully and the recorded
\* turns are those N turns in order, under the buffer and window variants,
\* and under the summary variant as long as the turns saved so far fit in
\* max_token_limit (nothing was pruned).
C1_TurnCount ==
    (svc /\ (memory_kind \in {"buffer", "window"} \/ LogTokens <= max_token_limit))
        => /\ memory_summary.conversation_turns = asked_ok
           /\ Len(get_chat_history_formatted(messages)) = asked_ok
           /\ \A i \in 1..asked_ok :
                 get_chat_history_formatted(messages)[i] = log[i]

\* C1 witness: six asks in a row completed on a window memory
C1_Witness ==
    svc /\ memory_kind = "window" /\ asked_ok = WindowK + 1
        /\ memory_summary.conversation_turns = WindowK + 1

\* C2 (as stated): when a Generator call fails during ask, the ask fails and
\* the stored messages are those from before the call.
C2_Claim ==
    [][(last'.op = "ask_question" /\ last'.gen_failed)
         => (last'.status = "error" /\ messages' = messages)]_vars

\* C3 (as stated): ask with a question that is blank after trimming fails
\* with EmptyQuestion, calls neither the retriever nor the LLM, and leaves
\* the stored messages as they were.
C3_Claim ==
    [][(last'.op = "ask_question" /\ IsBlank(last'.arg))
         => /\ last'.status = "error"
            /\ last'.error = "EmptyQuestion"
            /\ last'.calls = <<>>
            /\ messages' = messages]_vars

\* C4 (as stated): switch_memory_type with an unknown name raises and leaves
\* memory_type, the memory object, its messages and the chain unchanged.
C4_Claim ==
    [][(last'.op = "switch_memory_type" /\ last'.arg \notin KnownTypes)
         => /\ last'.status = "error"
            /\ memory_type' = memory_type
            /\ memory_kind' = memory_kind
            /\ messages' = messages
            /\ moving_summary_buffer' = moving_summary_buffer
            /\ chain_memory_kind' = chain_memory_kind]_vars

\* C5: a successful switch_memory_type to a known type leaves a fresh empty
\* memory of that type: get_memory_summary then reports 0 turns and the new
\* name, and the prompt of the next ask holds no earlier turn.
C5_SwitchFresh ==
    [][/\ (last'.op = "switch_memory_type" /\ last'.status = "ok")
            => /\ memory_summary'.conversation_turns = 0
               /\ memory_summary'.total_messages = 0
               /\ memory_summary'.memory_type = last'.arg
               /\ memory_kind' = last'.arg
               /\ chain_memory_kind' = last'.arg
       /\ (last.op = "switch_memory_type" /\ last.status = "ok" /\ AnswerPromptSent')
            => last'.prompt.chat_history = <<>>]_vars

\* C5 witness: a switch succeeded on a memory that held turns
C5_Witness ==
    last.op = "switch_memory_type" /\ last.status = "ok" /\ last.turns_before >= 2

\* C6: after clear_memory, get_memory_summary reports 0 turns under every
\* memory variant, the running summary is empty, and the prompt of the next
\* ask holds no earlier turn.
C6_ClearEmpties ==
    [][/\ last'.op = "clear_memory"
            => /\ memory_summary'.conversation_turns = 0
               /\ memory_summary'.total_messages = 0
               /\ moving_summary_buffer' = ""
       /\ (last.op = "clear_memory" /\ AnswerPromptSent')
            => last'.prompt.chat_history = <<>>]_vars

\* C6 witness: a summary memory that held turns was cleared
C6_Witness ==
    last.op = "clear_memory" /\ memory_kind = "summary" /\ last.turns_before >= 2

\* C7: clear_memory always succeeds, also on an empty memory, never changes
\* the memory type, and a second clear_memory right after one leaves the
\* session as the first left it.
C7_ClearIdempotent ==
    [][last'.op = "clear_memory"
         => /\ last'.status = "ok"
            /\ memory_type' = memory_type
            /\ memory_kind' = memory_kind
            /\ chain_memory_kind' = chain_memory_kind
            /\ last.op = "clear_memory"
                 => /\ messages' = messages
                    /\ moving_summary_buffer' = moving_summary_buffer
                    /\ memory_summary' = memory_summary]_vars

\* C7 witness: clear_memory returned on a memory that was already empty
C7_Witness ==
    last.op = "clear_memory" /\ last.status = "ok" /\ last.turns_before = 0

\* C8: under the window memory the history rendered for the next prompt is
\* the last 5 turns saved, oldest first (all of them when there are at most
\* 5), and the prompt an ask sends holds exactly that history.
C8_WindowRender ==
    [][/\ (svc' /\ chain_memory_kind' = "window")
            => get_chat_history(load_memory_variables(CurrentMemory))'
                 = RenderTurns(LastN(log', WindowK))
       /\ (AnswerPromptSent' /\ chain_memory_kind = "window")
            => last'.prompt.chat_history = RenderTurns(LastN(log, WindowK))]_vars

\* C8 witness: a window memory holds more turns than the window
C8_Witness ==
    /\ svc /\ chain_memory_kind = "window" /\ Len(log) > WindowK
    /\ Len(get_chat_history(load_memory_variables(CurrentMemory))) = 2 * WindowK

C10_BufferPrompt ==
    [][(AnswerPromptSent' /\ chain_memory_kind = "buffer")
         => last'.prompt.chat_history = RenderTurns(log)]_vars

\* C10 witness: an ask on a buffer memory sent a prompt holding three turns
C10_Witness ==
    /\ svc /\ memory_kind = "buffer" /\ last.op = "ask_question"
    /\ last.status = "ok" /\ Len(last.prompt.chat_history) = 6

\* how many times a collaborator step occurs in a trace of calls
Count(calls, name) == Cardinality({i \in 1..Len(calls) : calls[i] = name})

\* the last step was an ask_question that returned its response
AskReturned == last.op = "ask_question" /\ last.status = "ok"

\* C11: for every memory variant, the response of a successful ask_question
\* reports a chat_history whose last entry is the question and the answer of
\* that very call.
C11_Claim ==
    AskReturned =>
        /\ last.chat_history # <<>>
        /\ last.chat_history[Len(last.chat_history)]
               = [question |-> last.arg, answer |-> last.answer]

\* C12: every ask_question that returns has run the retriever once with
\* k = 4, and its source_chunks are the chunks that search produced, in the
\* same order: at most 4 of them, the very list that filled the context slot
\* of the prompt.
C12_SourceChunks ==
    AskReturned =>
        /\ Count(last.calls, "retriever") = 1
        /\ Len(last.source_chunks) <= RetrieverK
        /\ Len(last.source_chunks) = Min(Len(vector_store), RetrieverK)
        /\ last.source_chunks = last.prompt.context
        /\ \A i \in 1..Len(last.source_chunks) :
              \E j \in 1..Len(vector_store) :
                  last.source_chunks[i] = vector_store[j]

\* C12 witness: an ask returned the 4 best of a store of 5 chunks
C12_Witness ==
    /\ AskReturned
    /\ Len(vector_store) > RetrieverK
    /\ Len(last.source_chunks) = RetrieverK
    /\ last.source_chunks = last.prompt.context

\* the step is an ask_question: it saved a turn or used up a failure
AskStep == last'.op = "ask_question" /\ (log' # log \/ failures' # failures)

\* the steps an ask_question can take, in the order the chain takes them
ChainSteps ==
    <<"load_memory_variables", "question_generator", "retriever", "llm",
      "save_context", "predict_new_summary">>

\* the place of a step in ChainSteps
StepPos(name) == CHOOSE i \in 1..Len(ChainSteps) : ChainSteps[i] = name

\* a trace of calls takes steps of ChainSteps in order, each at most once
InChainOrder(calls) ==
    /\ \A i \in 1..Len(calls) : \E j \in 1..Len(ChainSteps) : calls[i] = ChainSteps[j]
    /\ \A i, j \in 1..Len(calls) : i < j => StepPos(calls[i]) < StepPos(calls[j])

\* C13 (as stated): within one ask the steps are, in this order and each at
\* most once: retrieve for the question as received, render the memory,
\* assemble the prompt, call the Generator, append the turn, return.
C13_Original ==
    AskReturned =>
        /\ last.calls = <<"retriever", "load_memory_variables", "llm", "save_context">>
        /\ last.new_question = last.arg

\* C13 (amended): within one ask the steps are, in this order and each at
\* most once: render the memory; rewrite the question with a Generator call,
\* exactly when the rendered history is not empty; retrieve for the rewritten
\* question (the question as received when the history is empty); call the
\* Generator on the prompt that holds the history rendered at the start;
\* append the turn; summarise with a Generator call (summary memory over its
\* budget only); return. The append happens only after the answering call
\* has returned, and an ask that returns has appended.
C13_Order ==
    [][AskStep =>
        LET calls == last'.calls
            hist == get_chat_history(load_memory_variables(CurrentMemory))
        IN  /\ InChainOrder(calls)
            /\ calls # <<>> /\ calls[1] = "load_memory_variables"
            /\ (Count(calls, "question_generator") = 1) <=> (hist # <<>>)
            /\ (Count(calls, "retriever") = 1 /\ hist = <<>>)
                   => last'.new_question = last'.arg
            /\ Count(calls, "llm") = 1
                   => /\ Count(calls, "retriever") = 1
                      /\ last'.prompt.chat_history = hist
                      /\ last'.prompt.question = last'.new_question
            /\ Count(calls, "save_context") = 1 => Count(calls, "llm") = 1
            /\ Count(calls, "predict_new_summary") = 1
                   => Count(calls, "save_context") = 1
            /\ last'.status = "ok" => Count(calls, "save_context") = 1
            /\ messages' # messages => Count(calls, "save_context") = 1
    ]_vars

\* C13 witness: an ask over a non-empty history took every step, and the
\* retriever was given a rewritten question
C13_Witness ==
    /\ AskReturned
    /\ last.calls = ChainSteps
    /\ last.new_question # last.arg
    /\ last.prompt.chat_history # <<>>

\* the similarity search of the last ask_question failed
RetrieveFailed ==
    /\ last.op = "ask_question"
    /\ \E i \in 1..Len(last.failed_calls) : last.failed_calls[i] = "retriever"

\* C14 (as stated): when the retrieval of an ask fails, the error reaches
\* the caller unchanged, the Generator is not called for that ask and no
\* turn is appended.
C14_Original ==
    RetrieveFailed =>
        /\ last.status = "error" /\ last.error = "StoreError"
        /\ Count(last.calls, "question_generator") = 0
        /\ Count(last.calls, "llm") = 0
        /\ Count(last.calls, "predict_new_summary") = 0
        /\ Count(last.calls, "save_context") = 0

\* C14 (amended): when the retrieval of an ask fails, the error reaches the
\* caller unchanged, the Generator is not asked for an answer or a summary
\* (it has been called once, to rewrite the question, exactly when the
\* rendered history was not empty) and no turn is appended: the messages, the
\* running summary and the saved turns are what they were.
C14_RetrieveFails ==
    [][(AskStep /\ RetrieveFailed') =>
        /\ last'.status = "error" /\ last'.error = "StoreError"
        /\ (Count(last'.calls, "question_generator") = 1)
               <=> (get_chat_history(load_memory_variables(CurrentMemory)) # <<>>)
        /\ Count(last'.calls, "question_generator") <= 1
        /\ Count(last'.calls, "llm") = 0
        /\ Count(last'.calls, "predict_new_summary") = 0
        /\ Count(last'.calls, "save_context") = 0
        /\ messages' = messages
        /\ moving_summary_buffer' = moving_summary_buffer
        /\ log' = log /\ asked_ok' = asked_ok
    ]_vars

\* C14 witness: the retrieval failed in an ask over a non-empty history,
\* after the question had been rewritten
C14_Witness ==
    /\ RetrieveFailed
    /\ last.error = "StoreError"
    /\ messages # <<>>
    /\ last.calls = <<"load_memory_variables", "question_generator", "retriever">>

\* the steps of an ask that call the LLM
GeneratorSteps == {"question_generator", "llm", "predict_new_summary"}

\* C15: an ask calls the Generator at most once for its answer, and after a
\* Generator call of that ask has failed, the ask makes no further Generator
\* call.
C15_Claim ==
    last.op = "ask_question" =>
        /\ Count(last.calls, "llm") <= 1
        /\ \A i \in 1..Len(last.calls) :
              (/\ last.calls[i] \in GeneratorSteps
               /\ \E f \in 1..Len(last.failed_calls) :
                      last.failed_calls[f] = last.calls[i])
              => \A j \in (i + 1)..Len(last.calls) :
                     last.calls[j] \notin GeneratorSteps

\* the messages of a sequence of turns: each question followed by its answer
RECURSIVE TurnMessages(_)
TurnMessages(ts) ==
    IF ts = <<>> THEN <<>>
    ELSE <<HumanMessage(Head(ts).question), AIMessage(Head(ts).answer)>>
         \o TurnMessages(Tail(ts))

\* C16: under the summary memory (max_token_limit 1000) the messages kept
\* verbatim are whole turns, a contiguous suffix of the turns saved, within
\* the token budget; the turns before them have been replaced by the summary;
\* the rendered history is the summary followed by those turns; and no ask
\* made more than one summarising call.
C16_Claim ==
    (svc /\ chain_memory_kind = "summary") =>
        /\ \E k \in 0..Len(log) :
              LET recent == SubSeq(log, k + 1, Len(log)) IN
              /\ messages = TurnMessages(recent)
              /\ (k > 0) <=> (moving_summary_buffer # "")
              /\ get_chat_history(load_memory_variables(CurrentMemory))
                    = (IF k > 0 THEN <<<<"system: ", moving_summary_buffer>>>>
                       ELSE <<>>) \o RenderTurns(recent)
        /\ get_num_tokens_from_messages(messages) <= max_token_limit
        /\ last.op = "ask_question" =>
              Count(last.calls, "predict_new_summary") <= 1

\* the dictionary get_memory_summary returns, computed from the messages
\* alone
TotalChars(msgs) == SumSeq([i \in 1..Len(msgs) |-> CharLen(msgs[i].content)])

\* the step is a get_memory_summary call
SummaryStep == last'.op = "get_memory_summary"

\* C17: get_memory_summary is read-only: a call in any reachable state leaves
\* the messages, the running summary, the memory type and the memory object
\* unchanged, and a call that follows another with nothing in between returns
\* the same dictionary.
C17_SummaryReadOnly ==
    [][SummaryStep =>
        /\ UNCHANGED <<svc, llm, vector_store, memory_type, memory_kind,
                       messages, moving_summary_buffer, chain_memory_kind,
                       asked_ok, log, failures>>
        /\ last'.status = "ok"
        /\ last'.summary.total_messages = Len(messages)
        /\ last'.summary.memory_type = memory_type
        /\ last.op = "get_memory_summary" => last'.summary = last.summary
    ]_vars

\* C17 witness: get_memory_summary was called on a memory that holds turns
C17_Witness ==
    /\ last.op = "get_memory_summary"
    /\ last.summary.conversation_turns >= 2
    /\ Len(messages) >= 4

\* C18: last_messages of get_memory_summary is exactly the last
\* min(conversation_turns, 2) turns saved, in order, each as a question
\* followed by its own answer.
C18_Claim ==
    svc =>
        LET n == Min(memory_summary.conversation_turns, 2)
            recent == TurnMessages(LastN(log, n))
        IN  memory_summary.last_messages
               = [i \in 1..Len(recent) |-> recent[i].content]

\* C19: estimated_tokens of get_memory_summary is the total number of
\* characters of all stored messages divided by 4, rounded down; it is 0 for
\* an empty memory; and under the buffer and window memories an ask that
\* returns never makes it smaller.
C19_EstimatedTokens ==
    [][/\ SummaryStep =>
             /\ last'.summary.estimated_tokens = TotalChars(messages) \div 4
             /\ messages = <<>> => last'.summary.estimated_tokens = 0
       /\ (AskStep /\ last'.status = "ok"
              /\ chain_memory_kind \in {"buffer", "window"})
             => /\ TotalChars(messages') \div 4 >= TotalChars(messages) \div 4
                /\ memory_summary'.estimated_tokens = TotalChars(messages') \div 4
    ]_vars

\* C19 witness: get_memory_summary estimated the size of a window memory that
\* holds more than four messages
C19_Witness ==
    /\ last.op = "get_memory_summary"
    /\ chain_memory_kind = "window"
    /\ Len(messages) > 4
    /\ last.summary.estimated_tokens = TotalChars(messages) \div 4
    /\ last.summary.estimated_tokens > 0

\* C20: a request of one client never changes the turns, the memory type or
\* the document of the session another client has set up by its upload.
C20_Claim ==
    [][\A d \in uploaded :
          http'.client # d =>
              /\ messages' = messages
              /\ moving_summary_buffer' = moving_summary_buffer
              /\ memory_type' = memory_type
              /\ vector_store' = vector_store
    ]_vars

\* msgs is what is left of all when messages are dropped from its front
IsMessageSuffix(msgs, all) ==
    /\ Len(msgs) <= Len(all)
    /\ msgs = SubSeq(all, Len(all) - Len(msgs) + 1, Len(all))

\* C21: /ask requests in flight at the same time are served one after the
\* other: at most one handler is between its start and its return; the
\* history a handler rendered for its prompt is still the rendering of the
\* memory when it appends its turn; the turn it appends is its own question
\* with its own answer; and the stored messages are the turns saved, each
\* question followed at once by its answer.
C21_Serialized ==
    [][/\ Cardinality(running') <= 1
       /\ \A t \in running \ running' :
             /\ Count(t.run.calls, "llm") = 1
                   => t.run.prompt.chat_history
                        = get_chat_history(load_memory_variables(CurrentMemory))
             /\ ~t.run.raised
                   => log' = Append(log, [question |-> t.request.question,
                                          answer |-> t.run.answer])
             /\ t.run.raised => (log' = log /\ messages' = messages)
       /\ IsMessageSuffix(messages', TurnMessages(log'))
    ]_vars

\* C21 witness: a handler has made its chain call after an earlier turn was
\* saved, while the /ask of another client waits for the loop
C21_Witness ==
    /\ Cardinality(running) = 1
    /\ \E r \in pending : \A t \in running : r.client # t.request.client
    /\ Len(log) >= 1
    /\ \A t \in running : t.run.prompt.chat_history # <<>>

\* C22: clear_memory, switch_memory_type and get_memory_summary call neither
\* the retriever nor the LLM (no collaborator call is made and none can
\* fail in them); ask_question is the only operation that calls one.
C22_OnlyAskCalls ==
    [][/\ last'.op \in {"clear_memory", "switch_memory_type", "get_memory_summary"}
             => /\ last'.calls = <<>>
                /\ last'.failed_calls = <<>>
                /\ ~last'.gen_failed
                /\ failures' = failures
       /\ (last'.calls # <<>> \/ failures' # failures)
             => last'.op = "ask_question"
    ]_vars

\* C22 witness: clear_memory emptied a memory that held turns, after a
\* collaborator call of an earlier ask had failed
C22_Witness ==
    /\ last.op = "clear_memory"
    /\ last.turns_before >= 1
    /\ last.calls = <<>>
    /\ failures = MaxFailures

\* the headings of a prompt, in order
Labels(template) == [i \in 1..Len(template) |-> template[i].label]

\* the slots of a prompt, in order
Slots(template) == [i \in 1..Len(template) |-> template[i].slot]

\* C23 (as stated): the prompt of every ask consists of these sections in
\* this order: 'Previous conversation:' with the rendered memory, 'Document
\* context:' with the fragment texts, 'Current question:' with the question,
\* 'Instructions:', and a final 'Answer:'.
C23_Original ==
    AnswerPromptSent =>
        /\ Labels(last.prompt.template)
              = <<"Previous conversation:", "Document context:",
                  "Current question:", "Instructions:", "Answer:">>
        /\ Slots(last.prompt.template) = <<"chat_history", "context", "question", "", "">>
        /\ last.prompt.question = last.arg

\* C23 (amended): the prompt of every ask is an opening line followed by
\* these sections in this order: 'Previous conversation:' with the rendered
\* memory, 'Resume context:' with the chunks retrieved, 'Current question:'
\* with the question the retriever was given (the question as asked when the
\* history is empty, the rewritten question otherwise), 'Instructions:', and
\* a final 'Answer:'.
C23_PromptSections ==
    AnswerPromptSent =>
        /\ Labels(last.prompt.template)
              = <<"You are a helpful assistant analyzing a resume.",
                  "Previous conversation:", "Resume context:",
                  "Current question:", "Instructions:", "Answer:">>
        /\ Slots(last.prompt.template)
              = <<"", "chat_history", "context", "question", "", "">>
        /\ last.prompt.question = last.new_question
        /\ last.prompt.chat_history = <<>> => last.prompt.question = last.arg
        /\ last.prompt.chat_history # <<>>
              => last.prompt.question \in {StandaloneText, ErrText}
        /\ last.status = "ok" => last.prompt.context = last.source_chunks

\* C23 witness: an answer prompt was sent with a history, chunks and a
\* rewritten question in its slots
C23_Witness ==
    /\ AnswerPromptSent
    /\ last.prompt.chat_history # <<>>
    /\ last.prompt.context # <<>>
    /\ last.prompt.question = StandaloneText
    /\ Len(last.prompt.template) = 6

\* the endpoints that need a conversation service
ServiceEndpoints == {"/ask", "/clear-memory", "/memory-summary"}

\* C24: before any successful upload, /ask, /clear-memory and
\* /memory-summary are each answered 400, create no service and change no
\* state; after a successful upload none of them is answered 400.
C24_NoServiceIs400 ==
    [][http'.endpoint \in ServiceEndpoints =>
          IF uploaded = {}
          THEN /\ http'.code = 400
               /\ ~svc /\ ~svc'
               /\ UNCHANGED svcvars
               /\ uploaded' = {}
          ELSE /\ http'.code # 400
               /\ svc /\ svc'
    ]_vars

\* C24 witness: /clear-memory was answered 400 while no upload had succeeded
C24_Witness ==
    /\ http.endpoint = "/clear-memory"
    /\ http.code = 400
    /\ uploaded = {}
    /\ ~svc

\* C25: an /upload whose file name has no supported extension is answered
\* 400 and leaves the service in use, if any, unchanged.
C25_Claim ==
    [][(http'.endpoint = "/upload" /\ ~SupportedFile(http'.arg)) =>
          /\ http'.code = 400
          /\ UNCHANGED svcvars
    ]_vars

C27_UploadReplaces ==
    [][http'.endpoint = "/upload" =>
          IF http'.code = 200
          THEN /\ svc'
               /\ memory_type' = "buffer"
               /\ memory_kind' = "buffer"
               /\ chain_memory_kind' = "buffer"
               /\ messages' = <<>>
               /\ moving_summary_buffer' = ""
               /\ log' = <<>> /\ asked_ok' = 0
               /\ vector_store' \in Stores
               /\ http'.client \in uploaded'
          ELSE /\ UNCHANGED svcvars
               /\ uploaded' = uploaded
    ]_vars

\* C27 witness: an /upload succeeded on a backend whose service held turns
C27_Witness ==
    /\ http.endpoint = "/upload"
    /\ http.code = 200
    /\ last.op = "__init__"
    /\ last.turns_before >= 1
    /\ messages = <<>>

\* C28 (as stated): in every state of a service memory_type is one of buffer,
\* window, summary and names the memory the chain was built around, so that
\* no ask is answered under a memory other than the one get_memory_summary
\* reports, also after a switch that failed.
C28_Claim ==
    svc =>
        /\ memory_type \in KnownTypes
        /\ memory_summary.memory_type = chain_memory_kind
        /\ memory_kind = chain_memory_kind

\* C29 (as stated): in every state the stored messages are of even length
\* and alternate human, ai from a human message on, so that
\* get_chat_history_formatted pairs every question with its own answer and
\* conversation_turns counts every message, under all three memories.
C29_Claim ==
    svc =>
        /\ Len(messages) % 2 = 0
        /\ \A i \in 1..Len(messages) :
              messages[i].type = (IF i % 2 = 1 THEN "human" ELSE "ai")
        /\ TurnMessages(get_chat_history_formatted(messages)) = messages
        /\ 2 * memory_summary.conversation_turns = memory_summary.total_messages

\* C30 (as stated): the frontend's chat_history stays in step with the
\* backend memory: after any uploads, questions, changes of the sidebar
\* memory type and clears, chat_history has as many entries as the backend
\* reports conversation_turns (none while there is no service), and no entry
\* is left without its answer.
C30_Claim ==
    /\ Len(session_chat_history)
          = (IF svc THEN memory_summary.conversation_turns ELSE 0)
    /\ \A i \in 1..Len(session_chat_history) :
          session_chat_history[i].answer # NoAnswer

====
